---- MODULE Spec2Model ----
(***************************************************************************)
(* Timed interview session controller of the AI mock-interview app.        *)
(*                                                                         *)
(* The model follows React's execution model: a hook's state is updated    *)
(* by its setter at once (updates are queued and applied in order), but    *)
(* every callback created by a render (useCallback handlers, effect        *)
(* bodies) keeps reading the values of the render that created it until    *)
(* the component renders again.  `page` holds the hook state, the refs and *)
(* the devices of the mounted ResumeInterviewPage, `rendered` the values   *)
(* closed over by the callbacks of its last render, and `quiz` the state   *)
(* of the mounted McqTestPage.  `recognition` is the module-level speech   *)
(* recognition object, which outlives the page.                            *)
(***************************************************************************)
EXTENDS Integers, Sequences, FiniteSets, TLC

VARIABLES view, page, rendered, recognition, quiz

vars == <<view, page, rendered, recognition, quiz>>

(***************************************************************************)
(* Bounds of the model.                                                    *)
(***************************************************************************)
MaxQuestions == 2       \* longest question list the Question Source returns
MaxTranscriptLen == 2   \* longest Transcript Buffer, in characters
MaxFaceEvents == 2      \* face-absence events handled while in progress
LongQuestions == 3      \* question count of a long session (SpecLong)
MaxMcqQuestions == 10   \* questions of a quiz

(***************************************************************************)
(* Program constants.                                                      *)
(***************************************************************************)
ThinkSeconds == 10
RecordSeconds == 30

\* <ResumeInterviewPage onEndSession={handleEndSession} />: the shell passes
\* no onTerminate prop, so the prop is undefined inside the page.
onTerminateWired == FALSE

(***************************************************************************)
(* Texts.  A question or message is the sequence of its words, an answer   *)
(* the sequence of its characters.                                         *)
(***************************************************************************)
Null == <<>>

Ordinals == <<"one", "two", "three", "four", "five", "six",
              "seven", "eight", "nine", "ten", "eleven", "twelve">>

QuestionText(k) == <<"Describe", "project", Ordinals[k]>>

QuestionList(n) == [k \in 1..n |-> QuestionText(k)]

SentinelNoAi == <<"Could", "not", "connect", "to", "the", "AI", "service.">>
SentinelBadFile == <<"Could", "not", "process", "the", "uploaded", "file.">>
SentinelApiError == <<"Could", "not", "generate", "questions", "due", "to", "an", "API", "error.">>

\* A question of the interviewer that happens to hold the words "could not".
QuestionWithMarker == <<"Describe", "what", "you", "could", "not", "finish">>

MsgUnsupportedType == <<"Unsupported", "file", "type.">>
MsgNoQuestions == <<"AI", "could", "not", "generate", "questions", "from", "this", "resume.">>
MsgUnexpected == <<"An", "unexpected", "error", "occurred.">>

NoAnswerRecorded == <<"[No answer recorded]">>

FallbackFeedback == "An error occurred while evaluating the answer. Please try again."

\* String.prototype.toLowerCase on one word of the vocabulary.
LowerWord(w) ==
    CASE w = "Could" -> "could"
      [] w = "AI" -> "ai"
      [] w = "API" -> "api"
      [] w = "Describe" -> "describe"
      [] w = "An" -> "an"
      [] w = "Unsupported" -> "unsupported"
      [] OTHER -> w

toLowerCase(text) == [k \in 1..Len(text) |-> LowerWord(text[k])]

\* String.prototype.includes for a phrase of two words.
includes(text, phrase) ==
    \E k \in 1..(Len(text) - 1) : text[k] = phrase[1] /\ text[k + 1] = phrase[2]

\* String.prototype.trim: strips leading and trailing white space.
RECURSIVE TrimLeft(_)
TrimLeft(s) == IF s # <<>> /\ Head(s) = " " THEN TrimLeft(Tail(s)) ELSE s

RECURSIVE TrimRight(_)
TrimRight(s) ==
    IF s # <<>> /\ s[Len(s)] = " " THEN TrimRight(SubSeq(s, 1, Len(s) - 1)) ELSE s

trim(s) == TrimRight(TrimLeft(s))

(***************************************************************************)
(* ResumeInterviewPage: state declarations.                                *)
(***************************************************************************)
AllowedTypes ==
    {"application/pdf",
     "application/vnd.openxmlformats-officedocument.wordprocessingml.document",
     "text/plain"}

FileTypes == {"application/pdf", "image/png"}

InitialPage ==
    [ proctoringStatus      |-> "pending",
      resumeFile            |-> "null",
      questions             |-> <<>>,
      currentQuestionIndex  |-> 0,
      interviewState        |-> "upload",
      error                 |-> Null,
      interviewPhase        |-> "idle",
      timer                 |-> ThinkSeconds,
      transcribedText       |-> <<>>,
      allAnswers            |-> <<>>,
      interviewResults      |-> <<>>,
      performanceSummary    |-> "null",
      isAdvancing           |-> FALSE,
      recognitionError      |-> "null",
      \* event.error of the error whose message is set
      errorCode             |-> "null",
      faceDetectionWarnings |-> 0,
      latestTranscript      |-> <<>>,
      isTerminatedRef       |-> FALSE,
      \* proctoringWarningRef.current.style.opacity
      warningOpacity        |-> 0,
      \* the countdown effect's one-second timeout, when one is scheduled
      countdown             |-> FALSE,
      \* gateway calls in flight
      genPending            |-> FALSE,
      \* what the last finished start attempt got from its awaits
      generatedQuestions    |-> [kind |-> "none", list |-> <<>>],
      evalBatches           |-> <<>>,
      sumCalls              |-> <<>>,
      \* setAllAnswers / setInterviewResults produced a new array since the
      \* last render (effect dependencies compare arrays by identity)
      answersTouched        |-> FALSE,
      resultsTouched        |-> FALSE,
      \* observations kept for the properties
      onTerminateCalls      |-> 0,
      uncaughtErrors        |-> 0,
      liveFaceEvents        |-> 0,
      advances              |-> [i \in 0..(LongQuestions + 1) |-> 0],
      scoringCalls          |-> 0,
      summaryCalls          |-> 0 ]

\* let recognition: the module-level SpeechRecognition instance.
\*   active   - capture is running (start() called, not stopped or failed)
\*   trailing - capture was stopped; one more callback of it may still arrive
\*   attached - rec.onresult / rec.onerror are set
InitialRecognition == [active |-> FALSE, trailing |-> FALSE, attached |-> FALSE]

\* The values a render hands to the callbacks it creates.
Snapshot(s) ==
    [ interviewState        |-> s.interviewState,
      currentQuestionIndex  |-> s.currentQuestionIndex,
      qlen                  |-> Len(s.questions),
      isAdvancing           |-> s.isAdvancing,
      timer                 |-> s.timer,
      interviewPhase        |-> s.interviewPhase,
      faceDetectionWarnings |-> s.faceDetectionWarnings,
      recognitionError      |-> s.recognitionError ]

\* The page together with the recognition object its handlers act on.
World == page @@ [rec |-> recognition]

Commit(n) ==
    /\ page' = [k \in DOMAIN page |-> n[k]]
    /\ recognition' = n.rec

Mounted == view = "resume-interview"

(***************************************************************************)
(* Speech recognition object.                                              *)
(***************************************************************************)
\* A faulty variant of RecStop: the capture is left running.
RecStopSkipped(s) == s

RecStop(s) ==
    IF s.rec.active
    THEN [s EXCEPT !.rec.active = FALSE, !.rec.trailing = TRUE]
    ELSE s

\* A faulty variant of RecStart: the capture is not started.
RecStartSkipped(s) == s

RecStart(s) == [s EXCEPT !.rec.active = TRUE, !.rec.trailing = FALSE]

(***************************************************************************)
(* Array helpers.                                                          *)
(***************************************************************************)
Undefined == <<"undefined">>

\* new Array(n) left unfilled and dropped: a faulty variant of FilledArray.
UnfilledArray(n) == <<>>

\* new Array(n).fill('')
FilledArray(n) == [k \in 1..n |-> <<>>]

\* arr.push(v) on a copy: a faulty variant of AssignAt.
PushInsteadOfAssign(arr, i, v) == Append(arr, v)

\* arr[i] = v on a copy (i counts from 0); a write past the end extends it.
AssignAt(arr, i, v) ==
    [k \in 1..(IF i + 1 > Len(arr) THEN i + 1 ELSE Len(arr)) |->
        IF k = i + 1 THEN v ELSE IF k <= Len(arr) THEN arr[k] ELSE Undefined]

\* a || b on strings
OrElse(a, b) == IF a = <<>> \/ a = Undefined THEN b ELSE a

(***************************************************************************)
(* ResumeInterviewPage: handlers.  `s` is the world a handler acts on,     *)
(* `cl` the values of the render that created the handler.                 *)
(***************************************************************************)
\* onTerminate('face_detection', ...): a call of the prop the shell passed.
\* With no prop passed the call throws a TypeError and nothing is notified.
onTerminate(s) ==
    IF onTerminateWired
    THEN [s EXCEPT !.onTerminateCalls = @ + 1]
    ELSE [s EXCEPT !.uncaughtErrors = @ + 1]

\* A faulty variant of handleFaceOutOfFrame: the first event already ends the
\* session.
handleFaceOutOfFrameNoWarning(s, cl) ==
    IF s.isTerminatedRef \/ cl.interviewState # "inProgress"
    THEN s
    ELSE onTerminate([s EXCEPT !.liveFaceEvents = @ + 1, !.isTerminatedRef = TRUE])

handleFaceOutOfFrame(s, cl) ==
    IF s.isTerminatedRef \/ cl.interviewState # "inProgress"
    THEN s
    ELSE LET seen == [s EXCEPT !.liveFaceEvents = @ + 1] IN
         IF cl.faceDetectionWarnings = 0
         THEN [seen EXCEPT !.faceDetectionWarnings = 1, !.warningOpacity = 1]
         ELSE onTerminate([seen EXCEPT !.isTerminatedRef = TRUE])

handleFileChange(s, fileType) ==
    IF fileType \notin AllowedTypes
    THEN [s EXCEPT !.error = MsgUnsupportedType]
    ELSE [s EXCEPT !.resumeFile = fileType, !.error = Null]

\* handleStartInterview up to its first await.
handleStartInterview(s) ==
    IF s.resumeFile = "null"
    THEN s
    ELSE [s EXCEPT !.interviewState = "generating", !.genPending = TRUE]

FailureMarker == <<"could", "not">>

\* A faulty variant of IsUsable: the marker is looked for without lowering the
\* case of the text.
IsUsableCaseSensitive(generatedQuestions) ==
    /\ Len(generatedQuestions) > 0
    /\ ~includes(generatedQuestions[1], FailureMarker)

\* The classification of the Question Source result in handleStartInterview.
IsUsable(generatedQuestions) ==
    /\ Len(generatedQuestions) > 0
    /\ ~includes(toLowerCase(generatedQuestions[1]), FailureMarker)

\* handleStartInterview after its awaits.  outcome.kind is "throws" when
\* fileToDataUrl rejects (or the result cannot be inspected) and "list" when
\* generateQuestionsFromResume resolved with outcome.list.
handleStartInterviewSettled(s, outcome) ==
    LET done == [s EXCEPT !.genPending = FALSE, !.generatedQuestions = outcome] IN
    IF outcome.kind = "throws"
    THEN [done EXCEPT !.error = MsgUnexpected, !.interviewState = "upload"]
    ELSE IF IsUsable(outcome.list)
    THEN [done EXCEPT !.questions = outcome.list,
                      !.allAnswers = FilledArray(Len(outcome.list)),
                      !.answersTouched = TRUE,
                      !.interviewState = "inProgress"]
    ELSE [done EXCEPT !.error = IF outcome.list # <<>>
                                 THEN OrElse(outcome.list[1], MsgNoQuestions)
                                 ELSE MsgNoQuestions,
                      !.interviewState = "upload"]

\* An advance that commits the buffer as it is, trailing blank included: a
\* faulty variant of handleAdvanceAfterRecording.
handleAdvanceUntrimmed(s, cl) ==
    IF cl.isAdvancing \/ s.isTerminatedRef
    THEN s
    ELSE LET locked == RecStop([s EXCEPT !.isAdvancing = TRUE])
             written == [locked EXCEPT
                 !.allAnswers = AssignAt(@, cl.currentQuestionIndex, s.latestTranscript),
                 !.answersTouched = TRUE,
                 !.advances[cl.currentQuestionIndex] = @ + 1]
         IN IF cl.currentQuestionIndex < cl.qlen - 1
            THEN [written EXCEPT !.currentQuestionIndex = @ + 1]
            ELSE [written EXCEPT !.interviewState = "evaluating"]

handleAdvanceAfterRecording(s, cl) ==
    IF cl.isAdvancing \/ s.isTerminatedRef
    THEN s
    ELSE LET locked == RecStop([s EXCEPT !.isAdvancing = TRUE])
             finalAnswer == trim(s.latestTranscript)
             written == [locked EXCEPT
                 !.allAnswers = AssignAt(@, cl.currentQuestionIndex, finalAnswer),
                 !.answersTouched = TRUE,
                 !.advances[cl.currentQuestionIndex] = @ + 1]
         IN IF cl.currentQuestionIndex < cl.qlen - 1
            THEN [written EXCEPT !.currentQuestionIndex = @ + 1]
            ELSE [written EXCEPT !.interviewState = "evaluating"]

\* rec.onresult: event is the list of results from event.resultIndex on.
RECURSIVE FinalTranscript(_)
FinalTranscript(event) ==
    IF event = <<>> THEN <<>>
    ELSE (IF Head(event).isFinal THEN Head(event).transcript ELSE <<>>)
         \o FinalTranscript(Tail(event))

onresult(s, event) ==
    LET text == s.latestTranscript \o FinalTranscript(event) \o <<" ">> IN
    [s EXCEPT !.latestTranscript = text, !.transcribedText = text]

\* A message table with the not-allowed branch left out: a faulty variant of
\* ErrorMessage.
ErrorMessageNoDenied(code) ==
    CASE code = "no-speech" -> "We didn't hear you."
      [] code = "audio-capture" -> "There was a problem with your microphone."
      [] OTHER -> "An unknown microphone error occurred."

ErrorMessage(code) ==
    CASE code = "no-speech" -> "We didn't hear you."
      [] code \in {"not-allowed", "service-not-allowed"} -> "Microphone access was denied."
      [] code = "audio-capture" -> "There was a problem with your microphone."
      [] OTHER -> "An unknown microphone error occurred."

\* A faulty variant of onerror: the error is reported and the question is not
\* advanced.
onerrorOnlyReports(s, cl, code) ==
    [s EXCEPT !.recognitionError = ErrorMessage(code), !.errorCode = code]


onerror(s, cl, code) ==
    handleAdvanceAfterRecording(
        [s EXCEPT !.recognitionError = ErrorMessage(code), !.errorCode = code], cl)

(***************************************************************************)
(* Scoring Gateway and evaluation pipeline.                                *)
(***************************************************************************)
\* A score the model can answer with.
ApiScores == {5}

\* What evaluateAnswer can resolve with: the model's verdict, or the fixed
\* fallback of its catch block.
ScoreOutcomes ==
    {[feedback |-> "model feedback", score |-> n] : n \in ApiScores}
    \cup {[feedback |-> FallbackFeedback, score |-> 0]}

Pending == [feedback |-> "pending", score |-> -1]

\* Numbers the model may put into the score field of its answer: the response
\* schema asks for a NUMBER, the prompt for a score from 1 to 5.
UpstreamScores == {1, 5, 7}

\* What generateContent can produce for evaluateAnswer: a JSON text with a
\* string feedback and a number score, a text of another shape, or a rejection.
UpstreamResponses ==
    {[kind |-> "json", feedback |-> "model feedback", score |-> n] : n \in UpstreamScores}
    \cup {[kind |-> k, feedback |-> "", score |-> 0] : k \in {"malformed", "rejects"}}

\* evaluateAnswer: the parsed answer is returned as it is when feedback is a
\* string and score a number; every other outcome ends in the catch block.
evaluateAnswer(response) ==
    IF response.kind = "json"
    THEN [feedback |-> response.feedback, score |-> response.score]
    ELSE [feedback |-> FallbackFeedback, score |-> 0]

SummaryOutcomes == {"summary", "fallback summary"}

\* allAnswers[i] with no placeholder: a faulty variant of AnswerOrPlaceholder.
AnswerAsRecorded(answers, k) == IF k <= Len(answers) THEN answers[k] ELSE Undefined

\* allAnswers[i] || "[No answer recorded]"
AnswerOrPlaceholder(answers, k) ==
    OrElse(IF k <= Len(answers) THEN answers[k] ELSE Undefined, NoAnswerRecorded)

\* evaluateAllAnswers up to its await: one evaluateAnswer call per question.
evaluateAllAnswers(s, questions, answers) ==
    [s EXCEPT
        !.evalBatches = Append(@,
            [ questions |-> questions,
              answers   |-> [k \in 1..Len(questions) |-> AnswerOrPlaceholder(answers, k)],
              settled   |-> [k \in 1..Len(questions) |-> Pending] ]),
        !.scoringCalls = @ + Len(questions)]

RemoveAt(seq, b) == SubSeq(seq, 1, b - 1) \o SubSeq(seq, b + 1, Len(seq))

\* A join that gives the batch up and produces no results: a faulty variant
\* of evaluateAllAnswersJoined.
evaluateAllAnswersRejecting(s, b) ==
    [s EXCEPT !.evalBatches = RemoveAt(@, b)]

\* evaluateAllAnswers after Promise.all resolved for batch b.
evaluateAllAnswersJoined(s, b) ==
    LET batch == s.evalBatches[b]
        finalResults == [k \in 1..Len(batch.questions) |->
            [ question |-> batch.questions[k],
              answer   |-> batch.answers[k],
              feedback |-> batch.settled[k].feedback,
              score    |-> batch.settled[k].score ]]
    IN [s EXCEPT !.interviewResults = finalResults,
                 !.resultsTouched = TRUE,
                 !.interviewState = "summarizing",
                 !.evalBatches = RemoveAt(@, b)]

\* summarize up to its await.
summarize(s, results) ==
    [s EXCEPT !.sumCalls = Append(@, [results |-> results]),
              !.summaryCalls = @ + 1]

\* A settle that shows the results for a real summary only: a faulty variant
\* of summarizeSettled.
summarizeSettledUnlessFallback(s, i, outcome) ==
    [s EXCEPT !.performanceSummary = outcome,
              !.interviewState = IF outcome = "fallback summary" THEN @ ELSE "results",
              !.sumCalls = RemoveAt(@, i)]

\* A settle that returns to the questions: a faulty variant of summarizeSettled.
summarizeSettledRestarting(s, i, outcome) ==
    [s EXCEPT !.performanceSummary = outcome,
              !.interviewState = "inProgress",
              !.sumCalls = RemoveAt(@, i)]

\* summarize after summarizeInterviewPerformance resolved for call i.
summarizeSettled(s, i, outcome) ==
    [s EXCEPT !.performanceSummary = outcome,
              !.interviewState = "results",
              !.sumCalls = RemoveAt(@, i)]

(***************************************************************************)
(* ResumeInterviewPage: effects.  `n` is the render the effect belongs to. *)
(***************************************************************************)
SetupEffect(s, n) ==
    IF n.interviewState = "inProgress" /\ n.currentQuestionIndex < n.qlen
    THEN [s EXCEPT !.interviewPhase = "thinking",
                   !.timer = ThinkSeconds,
                   !.transcribedText = <<>>,
                   !.latestTranscript = <<>>,
                   !.isAdvancing = FALSE,
                   !.recognitionError = "null",
                   !.errorCode = "null"]
    ELSE s

HandlersEffect(s) ==
    IF s.isTerminatedRef THEN s ELSE [s EXCEPT !.rec.attached = TRUE]

HandlersCleanup(s) ==
    IF s.rec.attached THEN RecStop([s EXCEPT !.rec.attached = FALSE]) ELSE s

CountdownEffect(s, n) ==
    IF n.interviewState # "inProgress" \/ s.isTerminatedRef
    THEN s
    ELSE IF n.timer > 0
    THEN [s EXCEPT !.countdown = TRUE]
    ELSE IF n.interviewPhase = "thinking"
    THEN RecStart([s EXCEPT !.interviewPhase = "recording", !.timer = RecordSeconds])
    ELSE IF n.interviewPhase = "recording"
    THEN handleAdvanceAfterRecording(s, n)
    ELSE s

CountdownCleanup(s) == [s EXCEPT !.countdown = FALSE]

EvaluationEffect(s, n, questions, answers) ==
    IF n.interviewState = "evaluating"
    THEN evaluateAllAnswers(s, questions, answers)
    ELSE s

SummaryEffect(s, n, results) ==
    IF n.interviewState = "summarizing" THEN summarize(s, results) ELSE s

\* handleAdvanceAfterRecording is re-created when one of its dependencies
\* [isAdvancing, currentQuestionIndex, questions.length] changes.
AdvanceChanged(old, n) ==
    \/ old.isAdvancing # n.isAdvancing
    \/ old.currentQuestionIndex # n.currentQuestionIndex
    \/ old.qlen # n.qlen

SetupDepsChanged(old, n) ==
    \/ old.interviewState # n.interviewState
    \/ old.currentQuestionIndex # n.currentQuestionIndex
    \/ old.qlen # n.qlen

CountdownDepsChanged(old, n) ==
    \/ old.timer # n.timer
    \/ old.interviewPhase # n.interviewPhase
    \/ old.interviewState # n.interviewState
    \/ AdvanceChanged(old, n)

NeedsRender(s, old) ==
    Snapshot(s) # old \/ s.answersTouched \/ s.resultsTouched

\* One render of the page and the effects it commits: the cleanups of the
\* effects whose dependencies changed, then their bodies in declaration order.
RenderCommit(s, old) ==
    LET n  == Snapshot(s)
        evalChanged == old.interviewState # n.interviewState \/ s.answersTouched
        sumChanged  == old.interviewState # n.interviewState \/ s.resultsTouched
        s0 == [s EXCEPT !.answersTouched = FALSE, !.resultsTouched = FALSE]
        c1 == IF AdvanceChanged(old, n) THEN HandlersCleanup(s0) ELSE s0
        c2 == IF CountdownDepsChanged(old, n) THEN CountdownCleanup(c1) ELSE c1
        e1 == IF SetupDepsChanged(old, n) THEN SetupEffect(c2, n) ELSE c2
        e2 == IF AdvanceChanged(old, n) THEN HandlersEffect(e1) ELSE e1
        e3 == IF CountdownDepsChanged(old, n) THEN CountdownEffect(e2, n) ELSE e2
        e4 == IF evalChanged THEN EvaluationEffect(e3, n, s.questions, s.allAnswers) ELSE e3
        e5 == IF sumChanged THEN SummaryEffect(e4, n, s.interviewResults) ELSE e4
    IN e5

\* The first render of a freshly mounted page runs every effect.
MountCommit(s) ==
    LET n == Snapshot(s) IN
    SummaryEffect(
        EvaluationEffect(
            CountdownEffect(HandlersEffect(SetupEffect(s, n)), n),
            n, s.questions, s.allAnswers),
        n, s.interviewResults)

\* Unmounting runs the cleanup of every effect; continuations of calls still
\* in flight find no component to update.
UnmountCleanup(s) == CountdownCleanup(HandlersCleanup(s))

(***************************************************************************)
(* McqTestPage.  Its handlers run inside click events, which React renders *)
(* before it handles the next event, so they read the current state.       *)
(***************************************************************************)
subjects == {"DBMS", "CN", "OOPS", "DSA", "OS", "C++"}

OptionTexts == << <<"A">>, <<"B">> >>

McqQuestion(k) ==
    [ question      |-> QuestionText(k),
      options       |-> OptionTexts,
      correctAnswer |-> OptionTexts[1 + (k % 2)] ]

McqList(n) == [k \in 1..n |-> McqQuestion(k)]

\* The one-element list generateMcqTest returns from its catch block.
McqSentinel ==
    << [question |-> <<"An", "error", "occurred">>, options |-> <<>>, correctAnswer |-> <<>>] >>

InitialQuiz ==
    [ proctoringStatus     |-> "pending",
      selectedSubject      |-> "null",
      questions            |-> <<>>,
      currentQuestionIndex |-> 0,
      userAnswers          |-> <<>>,
      mcqState             |-> "select",
      score                |-> 0,
      performanceSummary   |-> "null",
      loadPending          |-> FALSE,
      sumCalls             |-> <<>>,
      summaryCalls         |-> 0,
      \* face-absence events the proctoring view has seen on this page
      faceEvents           |-> 0,
      \* rendering questions[currentQuestionIndex].question threw
      crashed              |-> FALSE ]

QuizMounted == view = "mcq-test"

handleSelectSubject(q, subject) ==
    [q EXCEPT !.selectedSubject = subject, !.mcqState = "loading", !.loadPending = TRUE]

handleSelectSubjectSettled(q, fetchedQuestions) ==
    [q EXCEPT !.loadPending = FALSE,
              !.questions = fetchedQuestions,
              !.userAnswers = FilledArray(Len(fetchedQuestions)),
              !.mcqState = "inProgress",
              !.crashed = (q.currentQuestionIndex >= Len(fetchedQuestions))]

\* A selection stored in the first slot whatever the question: a faulty
\* variant of handleSelectAnswer.
handleSelectAnswerFirstSlot(q, option) ==
    [q EXCEPT !.userAnswers = AssignAt(@, 0, option)]

handleSelectAnswer(q, option) ==
    [q EXCEPT !.userAnswers = AssignAt(@, q.currentQuestionIndex, option)]

\* questions.forEach((q, index) => ...) from position index (1-based) on.
RECURSIVE CountCorrect(_, _, _)
CountCorrect(questions, userAnswers, index) ==
    IF index > Len(questions)
    THEN 0
    ELSE (IF /\ index <= Len(userAnswers)
             /\ questions[index].correctAnswer = userAnswers[index]
          THEN 1 ELSE 0)
         + CountCorrect(questions, userAnswers, index + 1)

\* The count without the last question: a faulty variant of CorrectAnswers.
CorrectAnswersButLast(questions, userAnswers) ==
    CountCorrect(SubSeq(questions, 1, Len(questions) - 1), userAnswers, 1)

CorrectAnswers(questions, userAnswers) == CountCorrect(questions, userAnswers, 1)

\* Math.round(num / den) for num >= 0 and den > 0: the nearest integer, a
\* half rounded up.
Round(num, den) == (2 * num + den) \div (2 * den)

\* Math.floor in place of Math.round: a faulty variant of percentage.
percentageTruncated(score, total) ==
    IF total > 0 THEN (score * 100) \div total ELSE 0

\* McqResultsView: questions.length > 0 ? Math.round((score / questions.length) * 100) : 0
percentage(score, total) ==
    IF total > 0 THEN Round(score * 100, total) ELSE 0

RECURSIVE SumScores(_)
SumScores(results) ==
    IF results = <<>> THEN 0 ELSE Head(results).score + SumScores(Tail(results))

\* ResultsView: maxScore > 0 ? Math.round((totalScore / maxScore) * 100) : 0
ResultsPercentage(results) ==
    LET totalScore == SumScores(results)
        maxScore   == Len(results) * 5
    IN IF maxScore > 0 THEN Round(totalScore * 100, maxScore) ELSE 0

\* handleNextQuestion, and on submit the getSummary effect of the render that
\* follows it.
handleNextQuestion(q) ==
    IF q.currentQuestionIndex < Len(q.questions) - 1
    THEN [q EXCEPT !.currentQuestionIndex = @ + 1]
    ELSE LET correctAnswers == CorrectAnswers(q.questions, q.userAnswers) IN
         [q EXCEPT !.score = correctAnswers,
                   !.mcqState = "summarizing",
                   !.sumCalls = IF q.selectedSubject # "null"
                                THEN Append(@, [subject |-> q.selectedSubject,
                                                score   |-> correctAnswers,
                                                total   |-> Len(q.questions)])
                                ELSE @,
                   !.summaryCalls = IF q.selectedSubject # "null" THEN @ + 1 ELSE @]

getSummarySettled(q, i, outcome) ==
    [q EXCEPT !.performanceSummary = outcome,
              !.mcqState = "results",
              !.sumCalls = RemoveAt(@, i)]

(***************************************************************************)
(* Inputs of the environment.                                              *)
(***************************************************************************)
\* What handleStartInterview's awaits can produce.
StartOutcomes ==
    {[kind |-> "throws", list |-> <<>>]}
    \cup {[kind |-> "list", list |-> l] :
            l \in {<<>>, <<SentinelNoAi>>, <<SentinelBadFile>>, <<SentinelApiError>>,
                   <<QuestionWithMarker, QuestionText(1)>>}
                  \cup {QuestionList(n) : n \in 1..MaxQuestions}}

RecEvents ==
    { << [isFinal |-> TRUE,  transcript |-> <<"a">>] >>,
      << [isFinal |-> FALSE, transcript |-> <<"b">>] >> }

\* The terminal error delivered by the recognition object.  Every code takes the
\* same path through rec.onerror and differs in its message only.
ErrorCodes == {"no-speech"}

\* The codes of SpeechRecognitionErrorEvent.error the handler tells apart, and
\* two it does not.
AllErrorCodes ==
    {"no-speech", "not-allowed", "service-not-allowed", "audio-capture",
     "network", "aborted"}

McqOutcomes == {McqSentinel} \cup {McqList(n) : n \in 0..MaxMcqQuestions}

(***************************************************************************)
(* The state machine.                                                      *)
(***************************************************************************)
Init ==
    /\ view = "dashboard"
    /\ page = InitialPage
    /\ rendered = Snapshot(InitialPage)
    /\ recognition = InitialRecognition
    /\ quiz = InitialQuiz

\* DashboardPage: setView('resume-interview') mounts a fresh page.
MountPage ==
    /\ view = "dashboard"
    /\ view' = "resume-interview"
    /\ Commit(MountCommit(InitialPage @@ [rec |-> recognition]))
    /\ rendered' = Snapshot(InitialPage)
    /\ UNCHANGED quiz

\* The page is opened once the capture a previous page stopped has ended.
OpenResumeInterview == ~recognition.trailing /\ MountPage

\* The page is opened while a callback of the capture that the previous page
\* stopped is still on its way.
OpenResumeInterviewEarly == recognition.trailing /\ MountPage

\* DashboardPage: setView('mcq-test') mounts a fresh quiz.
OpenMcqTest ==
    /\ view = "dashboard"
    /\ view' = "mcq-test"
    /\ quiz' = InitialQuiz
    /\ UNCHANGED <<page, rendered, recognition>>

\* The page's "Back to Dashboard" buttons: results view and permission-error view.
EndSession ==
    /\ Mounted
    /\ \/ page.proctoringStatus = "error"
       \/ /\ page.proctoringStatus = "ready"
          /\ rendered.interviewState = "results"
          /\ page.interviewState = "results"
    /\ view' = "dashboard"
    /\ recognition' = UnmountCleanup(World).rec
    /\ page' = InitialPage
    /\ rendered' = Snapshot(InitialPage)
    /\ UNCHANGED quiz

\* The quiz's "Back to Dashboard" buttons: select, results and error views.
EndQuizSession ==
    /\ QuizMounted
    /\ \/ quiz.proctoringStatus = "error"
       \/ quiz.proctoringStatus = "ready" /\ quiz.mcqState \in {"select", "results"}
    /\ view' = "dashboard"
    /\ quiz' = InitialQuiz
    /\ UNCHANGED <<page, rendered, recognition>>

ProctoringReady ==
    /\ Mounted
    /\ page.proctoringStatus = "pending"
    /\ page' = [page EXCEPT !.proctoringStatus = "ready"]
    /\ UNCHANGED <<view, rendered, recognition, quiz>>

ProctoringError ==
    /\ Mounted
    /\ page.proctoringStatus \in {"pending", "ready"}
    /\ page' = [page EXCEPT !.proctoringStatus = "error"]
    /\ UNCHANGED <<view, rendered, recognition, quiz>>

UploadViewShown ==
    /\ Mounted
    /\ page.proctoringStatus = "ready"
    /\ page.interviewState = "upload"
    /\ rendered.interviewState = "upload"

FileChange ==
    /\ UploadViewShown
    /\ \E fileType \in FileTypes : Commit(handleFileChange(World, fileType))
    /\ UNCHANGED <<view, rendered, quiz>>

\* A Start button that is disabled without a file only: a faulty variant of
\* StartInterview.
StartInterviewDespiteError ==
    /\ UploadViewShown
    /\ page.resumeFile # "null"
    /\ Commit(handleStartInterview(World))
    /\ UNCHANGED <<view, rendered, quiz>>

\* The Start button is disabled without a file or while an error is shown.
StartInterview ==
    /\ UploadViewShown
    /\ page.resumeFile # "null"
    /\ page.error = Null
    /\ Commit(handleStartInterview(World))
    /\ UNCHANGED <<view, rendered, quiz>>

StartSettled ==
    /\ Mounted
    /\ page.genPending
    /\ \E outcome \in StartOutcomes : Commit(handleStartInterviewSettled(World, outcome))
    /\ UNCHANGED <<view, rendered, quiz>>

\* The question source answers with a long list of questions.
StartSettledLong ==
    /\ Mounted
    /\ page.genPending
    /\ Commit(handleStartInterviewSettled(
                World, [kind |-> "list", list |-> QuestionList(LongQuestions)]))
    /\ UNCHANGED <<view, rendered, quiz>>

Render ==
    /\ Mounted
    /\ NeedsRender(page, rendered)
    /\ Commit(RenderCommit(World, rendered))
    /\ rendered' = Snapshot(page)
    /\ UNCHANGED <<view, quiz>>

\* The countdown effect's timeout fires: setTimer(t => t - 1).
Tick ==
    /\ Mounted
    /\ page.countdown
    /\ page' = [page EXCEPT !.timer = @ - 1, !.countdown = FALSE]
    /\ UNCHANGED <<view, rendered, recognition, quiz>>

\* The 4 s timeout started with the warning hides the banner again (a timeout
\* is pending whenever the banner is shown).
HideWarning ==
    /\ Mounted
    /\ page.warningOpacity = 1
    /\ page' = [page EXCEPT !.warningOpacity = 0]
    /\ UNCHANGED <<view, rendered, recognition, quiz>>

FaceOutOfFrame ==
    /\ Mounted
    /\ page.proctoringStatus = "ready"
    /\ page.liveFaceEvents < MaxFaceEvents
    /\ Commit(handleFaceOutOfFrame(World, rendered))
    /\ UNCHANGED <<view, rendered, quiz>>

RecDelivers == recognition.attached /\ (recognition.active \/ recognition.trailing)

RecResult ==
    /\ Mounted
    /\ RecDelivers
    /\ \E event \in RecEvents :
        /\ Len(page.latestTranscript) + Len(FinalTranscript(event)) + 1 <= MaxTranscriptLen
        /\ Commit(onresult([World EXCEPT !.rec.trailing = FALSE], event))
    /\ UNCHANGED <<view, rendered, quiz>>

\* A terminal error ends the capture it belongs to.
RecError ==
    /\ Mounted
    /\ RecDelivers
    /\ \E code \in ErrorCodes :
        Commit(onerror([World EXCEPT !.rec.active = FALSE, !.rec.trailing = FALSE],
                       rendered, code))
    /\ UNCHANGED <<view, rendered, quiz>>

\* A terminal error with any of the recognizer's codes.
RecErrorAny ==
    /\ Mounted
    /\ RecDelivers
    /\ \E code \in AllErrorCodes :
        Commit(onerror([World EXCEPT !.rec.active = FALSE, !.rec.trailing = FALSE],
                       rendered, code))
    /\ UNCHANGED <<view, rendered, quiz>>

\* A stopped capture ends without a further callback.
RecEnded ==
    /\ ~recognition.active
    /\ recognition.trailing
    /\ recognition' = [recognition EXCEPT !.trailing = FALSE]
    /\ UNCHANGED <<view, page, rendered, quiz>>

ScoreSettled ==
    /\ Mounted
    /\ \E b \in 1..Len(page.evalBatches) :
       \E k \in 1..Len(page.evalBatches[b].settled) :
       \E outcome \in ScoreOutcomes :
        /\ page.evalBatches[b].settled[k] = Pending
        /\ page' = [page EXCEPT !.evalBatches[b].settled[k] = outcome]
    /\ UNCHANGED <<view, rendered, recognition, quiz>>

\* A scoring call settles with what evaluateAnswer makes of the upstream answer.
ScoreSettledUpstream ==
    /\ Mounted
    /\ \E b \in 1..Len(page.evalBatches) :
       \E k \in 1..Len(page.evalBatches[b].settled) :
       \E response \in UpstreamResponses :
        /\ page.evalBatches[b].settled[k] = Pending
        /\ page' = [page EXCEPT !.evalBatches[b].settled[k] = evaluateAnswer(response)]
    /\ UNCHANGED <<view, rendered, recognition, quiz>>

\* A join that proceeds as soon as one call of the batch has settled: a faulty
\* variant of EvaluationJoined.
EvaluationJoinedEarly ==
    /\ Mounted
    /\ \E b \in 1..Len(page.evalBatches) :
        /\ \E k \in 1..Len(page.evalBatches[b].settled) :
              page.evalBatches[b].settled[k] # Pending
        /\ page' = evaluateAllAnswersJoined(page, b)
    /\ UNCHANGED <<view, rendered, recognition, quiz>>

EvaluationJoined ==
    /\ Mounted
    /\ \E b \in 1..Len(page.evalBatches) :
        /\ \A k \in 1..Len(page.evalBatches[b].settled) :
              page.evalBatches[b].settled[k] # Pending
        /\ page' = evaluateAllAnswersJoined(page, b)
    /\ UNCHANGED <<view, rendered, recognition, quiz>>

SummarySettled ==
    /\ Mounted
    /\ \E i \in 1..Len(page.sumCalls) : \E outcome \in SummaryOutcomes :
        page' = summarizeSettled(page, i, outcome)
    /\ UNCHANGED <<view, rendered, recognition, quiz>>

QuizProctoringReady ==
    /\ QuizMounted
    /\ quiz.proctoringStatus = "pending"
    /\ quiz' = [quiz EXCEPT !.proctoringStatus = "ready"]
    /\ UNCHANGED <<view, page, rendered, recognition>>

QuizProctoringError ==
    /\ QuizMounted
    /\ quiz.proctoringStatus \in {"pending", "ready"}
    /\ quiz' = [quiz EXCEPT !.proctoringStatus = "error"]
    /\ UNCHANGED <<view, page, rendered, recognition>>

\* A face-absence event wired to end the quiz: a faulty variant of
\* QuizFaceOutOfFrame.
QuizFaceOutOfFrameTerminating ==
    /\ QuizMounted
    /\ quiz.proctoringStatus = "ready"
    /\ quiz.faceEvents < MaxFaceEvents
    /\ quiz' = [quiz EXCEPT !.faceEvents = @ + 1, !.mcqState = "results"]
    /\ UNCHANGED <<view, page, rendered, recognition>>

\* The proctoring view of the quiz sees no face: the page passes it no
\* onFaceOutOfFrame handler, so no state of the page is touched.
QuizFaceOutOfFrame ==
    /\ QuizMounted
    /\ quiz.proctoringStatus = "ready"
    /\ quiz.faceEvents < MaxFaceEvents
    /\ quiz' = [quiz EXCEPT !.faceEvents = @ + 1]
    /\ UNCHANGED <<view, page, rendered, recognition>>

QuizViewShown(state) ==
    /\ QuizMounted
    /\ quiz.proctoringStatus = "ready"
    /\ ~quiz.crashed
    /\ quiz.mcqState = state

SelectSubject ==
    /\ QuizViewShown("select")
    /\ \E subject \in subjects : quiz' = handleSelectSubject(quiz, subject)
    /\ UNCHANGED <<view, page, rendered, recognition>>

SelectSubjectSettled ==
    /\ QuizMounted
    /\ quiz.loadPending
    /\ \E fetched \in McqOutcomes : quiz' = handleSelectSubjectSettled(quiz, fetched)
    /\ UNCHANGED <<view, page, rendered, recognition>>

CurrentMcq == quiz.questions[quiz.currentQuestionIndex + 1]

SelectAnswer ==
    /\ QuizViewShown("inProgress")
    /\ \E o \in 1..Len(CurrentMcq.options) :
        quiz' = handleSelectAnswer(quiz, CurrentMcq.options[o])
    /\ UNCHANGED <<view, page, rendered, recognition>>

\* A Next/Submit button that is never disabled: a faulty variant of
\* NextQuestion.
NextQuestionNeverDisabled ==
    /\ QuizViewShown("inProgress")
    /\ quiz' = handleNextQuestion(quiz)
    /\ UNCHANGED <<view, page, rendered, recognition>>

\* The Next/Submit button is disabled while the current answer is empty.
NextQuestion ==
    /\ QuizViewShown("inProgress")
    /\ quiz.userAnswers[quiz.currentQuestionIndex + 1] # <<>>
    /\ quiz' = handleNextQuestion(quiz)
    /\ UNCHANGED <<view, page, rendered, recognition>>

QuizSummarySettled ==
    /\ QuizMounted
    /\ \E i \in 1..Len(quiz.sumCalls) : \E outcome \in SummaryOutcomes :
        quiz' = getSummarySettled(quiz, i, outcome)
    /\ UNCHANGED <<view, page, rendered, recognition>>

Next ==
    \/ OpenResumeInterview
    \/ OpenMcqTest
    \/ EndSession
    \/ EndQuizSession
    \/ ProctoringReady
    \/ ProctoringError
    \/ FileChange
    \/ StartInterview
    \/ StartSettled
    \/ Render
    \/ Tick
    \/ HideWarning
    \/ FaceOutOfFrame
    \/ RecResult
    \/ RecError
    \/ RecEnded
    \/ ScoreSettled
    \/ EvaluationJoined
    \/ SummarySettled
    \/ QuizProctoringReady
    \/ QuizProctoringError
    \/ SelectSubject
    \/ SelectSubjectSettled
    \/ SelectAnswer
    \/ NextQuestion
    \/ QuizSummarySettled

\* Sessions one after another, each opened after the speech recognition object
\* has come to rest.
Spec == Init /\ [][Next]_vars

\* As Spec, and a page may also be opened while the recognition object still
\* owes a callback to the page before it.
NextSessions == Next \/ OpenResumeInterviewEarly

SpecSessions == Init /\ [][NextSessions]_vars

\* As Spec, and the question source may answer with a long list of questions.
NextLong == Next \/ StartSettledLong

SpecLong == Init /\ [][NextLong]_vars

(***************************************************************************)
(* Properties of the spoken-mode session controller.                       *)
(***************************************************************************)

\* C1: the advance lock.  For every question index i the body of
\* handleAdvanceAfterRecording runs at most once with index i, however close
\* together its triggers (countdown expiry, transcription error) arrive: one
\* ledger write at i and one index transition, never two.
C1_OneAdvancePerIndex ==
    Mounted => \A i \in DOMAIN page.advances : page.advances[i] <= 1

C3_SecondFaceEventTerminates ==
    (Mounted /\ page.liveFaceEvents >= 2)
        => (page.isTerminatedRef /\ page.onTerminateCalls = 1)

\* C4: the first face-absence event of a session in progress sets the
\* violation count to 1 and shows the warning, and leaves the phase, the
\* question index, the sub-phase, the countdown, the ledger and the
\* terminated flag as they were; the termination callback is not invoked.
C4_FirstFaceEventWarns ==
    [][ (/\ Mounted
         /\ view' = view
         /\ rendered.interviewState = "inProgress"
         /\ page.interviewState = "inProgress"
         /\ ~page.isTerminatedRef
         /\ page.liveFaceEvents = 0
         /\ page'.liveFaceEvents = 1)
       => /\ page'.faceDetectionWarnings = 1
          /\ page'.warningOpacity = 1
          /\ page'.interviewState = page.interviewState
          /\ page'.currentQuestionIndex = page.currentQuestionIndex
          /\ page'.interviewPhase = page.interviewPhase
          /\ page'.timer = page.timer
          /\ page'.countdown = page.countdown
          /\ page'.allAnswers = page.allAnswers
          /\ ~page'.isTerminatedRef
          /\ page'.onTerminateCalls = page.onTerminateCalls
          /\ page'.uncaughtErrors = page.uncaughtErrors ]_vars

\* C4 witness: the first face-absence event has been handled during a
\* recording; the warning is up and the session goes on.
C4_Witness ==
    /\ Mounted
    /\ page.liveFaceEvents = 1
    /\ page.faceDetectionWarnings = 1
    /\ page.warningOpacity = 1
    /\ page.interviewState = "inProgress"
    /\ page.interviewPhase = "recording"
    /\ page.timer < RecordSeconds
    /\ ~page.isTerminatedRef

\* C5: once the terminated flag is set no step changes the phase, the
\* question index, the sub-phase or the ledger.
C5_TerminatedFreezesSession ==
    [][ (Mounted /\ view' = view /\ page.isTerminatedRef)
       => /\ page'.interviewState = page.interviewState
          /\ page'.currentQuestionIndex = page.currentQuestionIndex
          /\ page'.interviewPhase = page.interviewPhase
          /\ page'.allAnswers = page.allAnswers ]_vars

\* C6: once the terminated flag is set the countdown value never changes
\* again, not even through a tick scheduled before the termination.
C6_TerminatedFreezesCountdown ==
    [][ (Mounted /\ view' = view /\ page.isTerminatedRef)
       => page'.timer = page.timer ]_vars

\* C7: in every state with the terminated flag set the transcription capture
\* is not active.
C7_TerminatedStopsCapture ==
    (Mounted /\ page.isTerminatedRef) => ~recognition.active

\* C8: once the ledger is initialised its length equals the question count,
\* in the spoken interview and in the quiz.
C8_LedgerLength ==
    /\ (Mounted /\ page.questions # <<>>)
          => Len(page.allAnswers) = Len(page.questions)
    /\ (QuizMounted /\ quiz.mcqState \in {"inProgress", "summarizing", "results"})
          => Len(quiz.userAnswers) = Len(quiz.questions)

\* C8 witness: a two-question interview has written the first answer into its
\* ledger and moved to the second question.
C8_Witness ==
    /\ Mounted
    /\ Len(page.questions) = 2
    /\ page.advances[0] = 1
    /\ page.currentQuestionIndex = 1
    /\ page.allAnswers = << <<"a">>, <<>> >>

C10_StartSuccess ==
    [][ (/\ Mounted
         /\ view' = view
         /\ page.interviewState = "generating"
         /\ page.genPending
         /\ ~page'.genPending
         /\ page'.generatedQuestions.kind = "list"
         /\ page'.generatedQuestions.list # <<>>
         /\ ~\E k \in 1..(Len(page'.generatedQuestions.list[1]) - 1) :
                /\ page'.generatedQuestions.list[1][k] \in {"Could", "could"}
                /\ page'.generatedQuestions.list[1][k + 1] = "not")
       => /\ page'.interviewState = "inProgress"
          /\ page'.questions = page'.generatedQuestions.list
          /\ page'.allAnswers = [k \in 1..Len(page'.questions) |-> <<>>]
          /\ page'.currentQuestionIndex = 0 ]_vars

\* C10 witness: the question source returned two questions and the interview
\* is in progress with an empty two-slot ledger.
C10_Witness ==
    /\ Mounted
    /\ page.generatedQuestions = [kind |-> "list", list |-> QuestionList(2)]
    /\ page.interviewState = "inProgress"
    /\ page.questions = QuestionList(2)
    /\ page.allAnswers = << <<>>, <<>> >>
    /\ page.currentQuestionIndex = 0

\* C11: every value generateQuestionsFromResume returns on a failure (the
\* empty list, a one-element sentinel list) is classified as a failure by the
\* start attempt, and every non-empty list of questions it returns on success
\* is classified as a success.
C11_Classification ==
    [][ (/\ Mounted
         /\ view' = view
         /\ page.interviewState = "generating"
         /\ page.genPending
         /\ ~page'.genPending
         /\ page'.generatedQuestions.kind = "list")
       => (page'.interviewState = "upload"
             <=> \/ page'.generatedQuestions.list = <<>>
                 \/ page'.generatedQuestions.list[1] \in
                       {SentinelNoAi, SentinelBadFile, SentinelApiError}) ]_vars

\* C12: when the thinking countdown of a session in progress has reached 0
\* and no transcript fragment has been delivered, the render that handles it
\* makes the sub-phase recording, resets the countdown to 30, starts the
\* transcription capture and leaves the Transcript Buffer empty.
C12_ThinkingExpires ==
    [][ (/\ Mounted
         /\ view' = view
         /\ rendered' # rendered
         /\ page.interviewState = "inProgress"
         /\ page.interviewPhase = "thinking"
         /\ page.timer = 0
         /\ ~page.isTerminatedRef
         /\ page.latestTranscript = <<>>)
       => /\ page'.interviewPhase = "recording"
          /\ page'.timer = 30
          /\ recognition'.active
          /\ page'.latestTranscript = <<>>
          /\ page'.transcribedText = <<>> ]_vars

\* C12 witness: the thinking window of the second question has run out; the
\* recording has just started with a full countdown and an empty buffer.
C12_Witness ==
    /\ Mounted
    /\ page.interviewState = "inProgress"
    /\ page.currentQuestionIndex = 1
    /\ page.interviewPhase = "recording"
    /\ page.timer = RecordSeconds
    /\ recognition.active
    /\ recognition.attached
    /\ page.latestTranscript = <<>>
    /\ ~page.isTerminatedRef

\* C13: a terminal transcription error that ends the capture while question
\* i is being recorded, with the session not terminated and the advance lock
\* free, advances at once: ledger slot i takes the trimmed Transcript Buffer
\* and no other slot changes, the session is not terminated, and the phase
\* stays inProgress with index i + 1, or becomes evaluating when i is the last
\* index.
C13_ErrorAdvances ==
    [][ (/\ Mounted
         /\ view' = view
         /\ rendered' = rendered
         /\ recognition.active
         /\ ~recognition'.active
         /\ page.interviewState = "inProgress"
         /\ page.interviewPhase = "recording"
         /\ ~page.isTerminatedRef
         /\ ~page.isAdvancing)
       => /\ page'.allAnswers =
                [k \in 1..Len(page.allAnswers) |->
                    IF k = page.currentQuestionIndex + 1
                    THEN trim(page.latestTranscript)
                    ELSE page.allAnswers[k]]
          /\ ~page'.isTerminatedRef
          /\ IF page.currentQuestionIndex < Len(page.questions) - 1
             THEN /\ page'.interviewState = "inProgress"
                  /\ page'.currentQuestionIndex = page.currentQuestionIndex + 1
             ELSE /\ page'.interviewState = "evaluating"
                  /\ page'.currentQuestionIndex = page.currentQuestionIndex ]_vars

\* C13 witness: an error ended the recording of the first of two questions
\* early; the answer spoken so far is in the ledger and the second question
\* is current.
C13_Witness ==
    /\ Mounted
    /\ page.interviewState = "inProgress"
    /\ Len(page.questions) = 2
    /\ page.currentQuestionIndex = 1
    /\ page.recognitionError # "null"
    /\ page.isAdvancing
    /\ page.interviewPhase = "recording"
    /\ page.timer > 0
    /\ page.allAnswers = << <<"a">>, <<>> >>
    /\ ~recognition.active

\* C14: a message set by a terminal transcription error is shown by a render
\* of the question view before it goes away: whenever the recognition-error
\* state is cleared, or the question view is left while it is set, the render
\* on screen was showing that message in the question view.
C14_ErrorShown ==
    [][ (/\ Mounted /\ view' = view
         /\ page.recognitionError # "null"
         /\ ~page'.isTerminatedRef
         /\ rendered.interviewState = "inProgress"
         /\ \/ page'.recognitionError = "null"
            \/ rendered'.interviewState # "inProgress")
       => rendered.recognitionError = page.recognitionError ]_vars

\* C15: a scoring call that failed upstream is absorbed.  When a batch of
\* scoring calls is joined, the phase moves on to summarizing and result k
\* carries question k and answer k of the batch; it carries the fixed
\* fallback feedback and score 0 where call k failed, and the feedback and
\* score the call resolved with everywhere else.
C15_ScoringAbsorbed ==
    [][ (/\ Mounted /\ view' = view
         /\ Len(page'.evalBatches) < Len(page.evalBatches))
       => \E b \in 1..Len(page.evalBatches) :
            /\ page'.evalBatches = RemoveAt(page.evalBatches, b)
            /\ page'.interviewState = "summarizing"
            /\ Len(page'.interviewResults) = Len(page.evalBatches[b].questions)
            /\ \A k \in 1..Len(page.evalBatches[b].questions) :
                 /\ page'.interviewResults[k].question = page.evalBatches[b].questions[k]
                 /\ page'.interviewResults[k].answer = page.evalBatches[b].answers[k]
                 /\ IF page.evalBatches[b].settled[k].feedback = FallbackFeedback
                    THEN /\ page'.interviewResults[k].feedback = FallbackFeedback
                         /\ page'.interviewResults[k].score = 0
                    ELSE /\ page'.interviewResults[k].feedback = "model feedback"
                         /\ page'.interviewResults[k].score
                               = page.evalBatches[b].settled[k].score
                         /\ page'.interviewResults[k].score \in ApiScores ]_vars

C15_Witness ==
    /\ Mounted
    /\ page.interviewState = "summarizing"
    /\ ~page.isTerminatedRef
    /\ Len(page.interviewResults) = 2
    /\ page.interviewResults[1].feedback = FallbackFeedback
    /\ page.interviewResults[1].score = 0
    /\ page.interviewResults[2].feedback = "model feedback"
    /\ page.interviewResults[2].score = 5

\* Fairness of the session: React renders a pending update, a running
\* one-second timeout fires, and every call of the question source, of the
\* scoring and of the summarizing service settles.
Fairness ==
    /\ WF_vars(Render)
    /\ WF_vars(Tick)
    /\ WF_vars(StartSettled)
    /\ WF_vars(ScoreSettled)
    /\ WF_vars(EvaluationJoined)
    /\ WF_vars(SummarySettled)

\* One spoken session that is never terminated: the camera works, the face
\* stays in the frame and the page is not left.
NextSpoken ==
    \/ OpenResumeInterview
    \/ ProctoringReady
    \/ FileChange
    \/ StartInterview
    \/ StartSettled
    \/ Render
    \/ Tick
    \/ RecResult
    \/ RecError
    \/ RecEnded
    \/ ScoreSettled
    \/ EvaluationJoined
    \/ SummarySettled

SpecSpokenLive == Init /\ [][NextSpoken]_vars /\ Fairness

\* One spoken session with silent answers, scored on the upstream answers.
NextScoring ==
    \/ OpenResumeInterview
    \/ ProctoringReady
    \/ FileChange
    \/ StartInterview
    \/ StartSettled
    \/ Render
    \/ Tick
    \/ RecEnded
    \/ ScoreSettledUpstream
    \/ EvaluationJoined
    \/ SummarySettled

SpecScoring == Init /\ [][NextScoring]_vars

\* One spoken session up to the end of its questions, the recognizer failing
\* with any of its codes and the face leaving the frame.
NextErrors ==
    \/ OpenResumeInterview
    \/ ProctoringReady
    \/ FileChange
    \/ StartInterview
    \/ StartSettled
    \/ Render
    \/ Tick
    \/ HideWarning
    \/ FaceOutOfFrame
    \/ RecErrorAny
    \/ RecEnded

SpecErrors == Init /\ [][NextErrors]_vars

\* Quiz sessions under proctoring: the camera may lose the face at any time.
NextQuiz ==
    \/ OpenMcqTest
    \/ EndQuizSession
    \/ QuizProctoringReady
    \/ QuizProctoringError
    \/ QuizFaceOutOfFrame
    \/ SelectSubject
    \/ SelectSubjectSettled
    \/ SelectAnswer
    \/ NextQuestion
    \/ QuizSummarySettled

SpecQuiz == Init /\ [][NextQuiz]_vars

\* C16: a session in progress reaches the results, unless it is terminated,
\* the camera fails or the page is left.
C16_ReachesResults ==
    (Mounted /\ page.interviewState = "inProgress")
        ~> \/ ~Mounted
           \/ page.isTerminatedRef
           \/ page.proctoringStatus = "error"
           \/ page.interviewState = "results"

\* C17: the quiz is never stuck in progress.  While a question of the quiz is
\* on screen, the page shows that question and the user can act: an option
\* can be selected, or the Next/Submit button is enabled.
C17_QuizNeverStuck ==
    (/\ QuizMounted
     /\ quiz.proctoringStatus = "ready"
     /\ quiz.mcqState = "inProgress")
    => /\ ~quiz.crashed
       /\ quiz.currentQuestionIndex < Len(quiz.questions)
       /\ \/ Len(quiz.questions[quiz.currentQuestionIndex + 1].options) > 0
          \/ quiz.userAnswers[quiz.currentQuestionIndex + 1] # <<>>

\* C18: round trip of the quiz.  When a quiz of N >= 1 questions is submitted
\* and the stored answer of every question is that question's correct option,
\* the score is N and the percentage shown is 100.
C18_AllCorrect ==
    [][ (/\ QuizMounted /\ view' = view
         /\ quiz.mcqState = "inProgress" /\ quiz'.mcqState = "summarizing"
         /\ Len(quiz.questions) >= 1
         /\ \A k \in 1..Len(quiz.questions) :
               quiz.userAnswers[k] = quiz.questions[k].correctAnswer)
       => /\ quiz'.score = Len(quiz.questions)
          /\ percentage(quiz'.score, Len(quiz'.questions)) = 100 ]_vars

C18_Witness ==
    /\ QuizMounted
    /\ quiz.mcqState = "results"
    /\ Len(quiz.questions) = MaxMcqQuestions
    /\ \A k \in 1..Len(quiz.questions) :
          quiz.userAnswers[k] = quiz.questions[k].correctAnswer
    /\ quiz.score = MaxMcqQuestions
    /\ percentage(quiz.score, Len(quiz.questions)) = 100

\* C19: at submit the score is the number of positions whose stored answer
\* is exactly the question's correct answer, between 0 and N; the percentage
\* is the integer nearest to 100 * score / N; and one summarizing call is
\* made for the session, with the selected subject, that score and total N.
C19_SubmitScore ==
    /\ [][ (/\ QuizMounted /\ view' = view
            /\ quiz.mcqState = "inProgress" /\ quiz'.mcqState = "summarizing")
          => /\ quiz'.score = Cardinality({k \in 1..Len(quiz.questions) :
                    quiz.userAnswers[k] = quiz.questions[k].correctAnswer})
             /\ quiz'.score \in 0..Len(quiz.questions)
             /\ quiz'.questions = quiz.questions
             /\ 2 * (100 * quiz'.score
                      - percentage(quiz'.score, Len(quiz.questions)) * Len(quiz.questions))
                   <= Len(quiz.questions)
             /\ 2 * (percentage(quiz'.score, Len(quiz.questions)) * Len(quiz.questions)
                      - 100 * quiz'.score)
                   <= Len(quiz.questions)
             /\ quiz'.sumCalls = << [ subject |-> quiz.selectedSubject,
                                      score   |-> quiz'.score,
                                      total   |-> Len(quiz.questions) ] >>
             /\ quiz.selectedSubject \in subjects ]_vars
    /\ [](QuizMounted =>
            /\ quiz.summaryCalls = IF quiz.mcqState \in {"summarizing", "results"}
                                   THEN 1 ELSE 0
            /\ Len(quiz.sumCalls) = IF quiz.mcqState = "summarizing" THEN 1 ELSE 0)

C19_Witness ==
    /\ QuizMounted
    /\ quiz.mcqState = "summarizing"
    /\ quiz.selectedSubject = "DSA"
    /\ Len(quiz.questions) = 10
    /\ quiz.score = 6
    /\ percentage(quiz.score, Len(quiz.questions)) = 60
    /\ quiz.sumCalls = << [subject |-> "DSA", score |-> 6, total |-> 10] >>

\* C20: with zero questions the percentage of the quiz results and of the
\* spoken results is 0, and a session with zero questions does not end in an
\* error.
C20_ZeroQuestions ==
    /\ percentage(0, 0) = 0
    /\ ResultsPercentage(<<>>) = 0
    /\ (/\ QuizMounted
        /\ quiz.mcqState \notin {"select", "loading"}
        /\ Len(quiz.questions) = 0)
       => /\ ~quiz.crashed
          /\ percentage(quiz.score, Len(quiz.questions)) = 0
    /\ (/\ Mounted
        /\ page.interviewState = "results"
        /\ Len(page.interviewResults) = 0)
       => ResultsPercentage(page.interviewResults) = 0

C22_SlotWrittenOnce ==
    /\ [](  (/\ Mounted
             /\ page.interviewState \in {"evaluating", "summarizing", "results"}
             /\ ~page.isTerminatedRef)
          => \A i \in 0..(Len(page.questions) - 1) : page.advances[i] = 1)
    /\ [][ (Mounted /\ view' = view)
           => \A i \in 0..(Len(page.questions) - 1) :
                 (page.advances[i] >= 1 /\ Len(page'.allAnswers) = Len(page.allAnswers))
                    => /\ page'.advances[i] = page.advances[i]
                       /\ page'.allAnswers[i + 1] = page.allAnswers[i + 1] ]_vars

\* C23 (as stated): each slot of the quiz ledger is written once and is
\* read-only thereafter; a second selection on the same question does not
\* change the stored answer, and no slot but the current one is written.
C23_WrittenOnce ==
    [][ (/\ QuizMounted /\ view' = view
         /\ Len(quiz'.userAnswers) = Len(quiz.userAnswers))
       => \A k \in 1..Len(quiz.userAnswers) :
             (quiz.userAnswers[k] # <<>> \/ k # quiz.currentQuestionIndex + 1)
                => quiz'.userAnswers[k] = quiz.userAnswers[k] ]_vars

\* C23 (amended): a slot of the quiz ledger changes only while its question
\* is the current one and the quiz is in progress, and then to an option of
\* that question (a later selection replaces an earlier one); the slots of
\* the questions left behind, and every slot after submit, keep their content.
C23_SelectionLedger ==
    [][ (/\ QuizMounted /\ view' = view
         /\ Len(quiz'.userAnswers) = Len(quiz.userAnswers))
       => \A k \in 1..Len(quiz.userAnswers) :
             quiz'.userAnswers[k] # quiz.userAnswers[k]
                => /\ k = quiz.currentQuestionIndex + 1
                   /\ quiz.mcqState = "inProgress"
                   /\ quiz'.mcqState = "inProgress"
                   /\ quiz'.currentQuestionIndex = quiz.currentQuestionIndex
                   /\ \E o \in 1..Len(quiz.questions[k].options) :
                         quiz'.userAnswers[k] = quiz.questions[k].options[o] ]_vars

C23_Witness ==
    /\ QuizMounted
    /\ quiz.mcqState = "inProgress"
    /\ Len(quiz.questions) = 2
    /\ quiz.currentQuestionIndex = 1
    /\ quiz.userAnswers = << OptionTexts[1], OptionTexts[2] >>

\* C24: a document of an unsupported type is rejected when it is selected.
\* The step that sets the unsupported-type message leaves the phase at
\* upload, keeps the file selected before and issues no question-source
\* call; and while that message stands the phase does not become generating.
C24_UnsupportedRejected ==
    [][ (Mounted /\ view' = view)
        => /\ (page'.error = MsgUnsupportedType /\ page.error # MsgUnsupportedType)
              => /\ page.interviewState = "upload"
                 /\ page'.interviewState = "upload"
                 /\ page'.resumeFile = page.resumeFile
                 /\ ~page.genPending /\ ~page'.genPending
                 /\ page'.questions = page.questions
           /\ page.error = MsgUnsupportedType
              => /\ page'.interviewState # "generating"
                 /\ ~page'.genPending ]_vars

C24_Witness ==
    /\ Mounted
    /\ page.interviewState = "upload"
    /\ page.resumeFile = "application/pdf"
    /\ page.error = MsgUnsupportedType
    /\ ~page.genPending

\* C25: a device or permission error of the proctoring adapter cancels the
\* session.  Once it has been reported, no step of the page changes the
\* countdown, the sub-phase, the question index, the ledger, the number of
\* advances or of scoring calls, or the phase.
C25_DeviceErrorCancels ==
    [][ (Mounted /\ view' = view /\ page.proctoringStatus = "error")
        => /\ page'.proctoringStatus = "error"
           /\ page'.timer = page.timer
           /\ page'.interviewPhase = page.interviewPhase
           /\ page'.interviewState = page.interviewState
           /\ page'.currentQuestionIndex = page.currentQuestionIndex
           /\ page'.allAnswers = page.allAnswers
           /\ page'.advances = page.advances
           /\ page'.scoringCalls = page.scoringCalls ]_vars

C28_ScoreRange ==
    (Mounted /\ page.interviewState \in {"summarizing", "results"})
    => /\ \A k \in 1..Len(page.interviewResults) :
             IF page.interviewResults[k].feedback = FallbackFeedback
             THEN page.interviewResults[k].score = 0
             ELSE page.interviewResults[k].score \in 1..5
       /\ SumScores(page.interviewResults) <= 5 * Len(page.interviewResults)
       /\ ResultsPercentage(page.interviewResults) \in 0..100

\* C29: proctoring is advisory in the quiz.  A face-absence event leaves the
\* page on screen and changes none of the quiz phase, the question index, the
\* ledger, the score, the questions and the proctoring status.
C29_QuizFaceAdvisory ==
    [][ (QuizMounted /\ quiz'.faceEvents = quiz.faceEvents + 1)
        => /\ view' = view
           /\ quiz'.mcqState = quiz.mcqState
           /\ quiz'.currentQuestionIndex = quiz.currentQuestionIndex
           /\ quiz'.userAnswers = quiz.userAnswers
           /\ quiz'.score = quiz.score
           /\ quiz'.questions = quiz.questions
           /\ quiz'.proctoringStatus = quiz.proctoringStatus
           /\ quiz'.crashed = quiz.crashed ]_vars

C29_Witness ==
    /\ QuizMounted
    /\ quiz.faceEvents = 2
    /\ quiz.mcqState = "inProgress"
    /\ quiz.proctoringStatus = "ready"
    /\ quiz.currentQuestionIndex = 1
    /\ quiz.userAnswers[1] # <<>>

\* C30: ending a session discards the controller state.  The page opened
\* afterwards starts in the initial phase with no questions, an empty ledger,
\* index 0, no violation, not terminated and the lock released; and, as long
\* as it waits in upload for its first start, nothing of the previous session
\* reaches it: no advance runs, the ledger stays empty, the lock stays
\* released and the phase leaves upload only for generating.
C30_FreshSession ==
    [][ /\ (view = "dashboard" /\ view' = "resume-interview")
           => /\ page'.interviewState = "upload"
              /\ page'.questions = <<>>
              /\ page'.allAnswers = <<>>
              /\ page'.currentQuestionIndex = 0
              /\ page'.faceDetectionWarnings = 0
              /\ ~page'.isTerminatedRef
              /\ ~page'.isAdvancing
              /\ page'.interviewResults = <<>>
        /\ (/\ Mounted /\ view' = view
            /\ page.interviewState = "upload" /\ page.questions = <<>>
            /\ page.error = Null)
           => /\ page'.interviewState \in {"upload", "generating"}
              /\ page'.allAnswers = <<>>
              /\ page'.currentQuestionIndex = 0
              /\ ~page'.isAdvancing
              /\ page'.advances = page.advances ]_vars

\* C31: the setup of a question runs before anything else of that question.
\* While an index has become active in progress and the render that sets it
\* up is still due, no step changes the countdown, the sub-phase, the
\* transcript buffer, the ledger, the index or the error state; and the
\* render that sets it up leaves sub-phase thinking, countdown 10, an empty
\* buffer, the lock released and the error state cleared.
C31_SetupFirst ==
    [][ (/\ Mounted /\ view' = view
         /\ page.interviewState = "inProgress"
         /\ page.currentQuestionIndex < Len(page.questions)
         /\ ~page.isTerminatedRef
         /\ \/ rendered.interviewState # "inProgress"
            \/ rendered.currentQuestionIndex # page.currentQuestionIndex)
        => IF rendered' # rendered
           THEN /\ page'.interviewPhase = "thinking"
                /\ page'.timer = ThinkSeconds
                /\ page'.latestTranscript = <<>>
                /\ page'.transcribedText = <<>>
                /\ ~page'.isAdvancing
                /\ page'.recognitionError = "null"
           ELSE /\ page'.timer = page.timer
                /\ page'.interviewPhase = page.interviewPhase
                /\ page'.latestTranscript = page.latestTranscript
                /\ page'.allAnswers = page.allAnswers
                /\ page'.currentQuestionIndex = page.currentQuestionIndex
                /\ page'.recognitionError = page.recognitionError
                /\ page'.interviewState = page.interviewState ]_vars

\* C32: the recording countdown reaches 0.  When the render with countdown 0
\* in sub-phase recording finds the lock free and the session not
\* terminated, the advance takes the lock, stops the capture, writes the
\* trimmed transcript buffer into the slot of the current question and into
\* no other, and then moves the index on by one, or sets the phase to
\* evaluating with the index unchanged at the last question.
C32_CountdownAdvance ==
    [][ (/\ Mounted /\ view' = view /\ rendered' # rendered
         /\ page.interviewState = "inProgress"
         /\ page.interviewPhase = "recording"
         /\ page.timer = 0
         /\ rendered.timer # 0
         /\ rendered.interviewState = "inProgress"
         /\ rendered.interviewPhase = "recording"
         /\ rendered.currentQuestionIndex = page.currentQuestionIndex
         /\ ~page.isAdvancing
         /\ ~page.isTerminatedRef)
        => /\ page'.isAdvancing
           /\ ~recognition'.active
           /\ page'.allAnswers = [k \in 1..Len(page.allAnswers) |->
                 IF k = page.currentQuestionIndex + 1
                 THEN trim(page.latestTranscript)
                 ELSE page.allAnswers[k]]
           /\ page'.advances[page.currentQuestionIndex]
                 = page.advances[page.currentQuestionIndex] + 1
           /\ IF page.currentQuestionIndex < Len(page.questions) - 1
              THEN /\ page'.currentQuestionIndex = page.currentQuestionIndex + 1
                   /\ page'.interviewState = "inProgress"
              ELSE /\ page'.currentQuestionIndex = page.currentQuestionIndex
                   /\ page'.interviewState = "evaluating" ]_vars

C32_Witness ==
    /\ Mounted
    /\ page.interviewState = "evaluating"
    /\ rendered.interviewState = "inProgress"
    /\ rendered.timer = 0
    /\ Len(page.questions) = 2
    /\ page.currentQuestionIndex = 1
    /\ page.advances[0] = 1 /\ page.advances[1] = 1
    /\ page.allAnswers[2] = <<"a">>
    /\ page.isAdvancing
    /\ ~recognition.active

\* C33: the answer of a question is made of the final fragments delivered
\* while that question was recording.  The text of an interim fragment is
\* never in the buffer or in the ledger; and while a question has been set up
\* and is in its thinking sub-phase, no fragment is added to its buffer.
C33_OwnFinalFragments ==
    /\ [](Mounted =>
            /\ \A j \in 1..Len(page.latestTranscript) : page.latestTranscript[j] # "b"
            /\ \A k \in 1..Len(page.allAnswers) :
                  \A j \in 1..Len(page.allAnswers[k]) : page.allAnswers[k][j] # "b")
    /\ [][ (/\ Mounted /\ view' = view
            /\ page.interviewState = "inProgress"
            /\ page.interviewPhase = "thinking"
            /\ rendered.interviewState = "inProgress"
            /\ rendered.interviewPhase = "thinking"
            /\ rendered.currentQuestionIndex = page.currentQuestionIndex)
           => Cardinality({j \in 1..Len(page'.latestTranscript) :
                               page'.latestTranscript[j] # " "})
                 <= Cardinality({j \in 1..Len(page.latestTranscript) :
                               page.latestTranscript[j] # " "}) ]_vars

C35_MessagePerCode ==
    Mounted =>
        page.recognitionError =
            CASE page.errorCode = "null" -> "null"
              [] page.errorCode = "no-speech" -> "We didn't hear you."
              [] page.errorCode = "not-allowed" -> "Microphone access was denied."
              [] page.errorCode = "service-not-allowed" -> "Microphone access was denied."
              [] page.errorCode = "audio-capture" -> "There was a problem with your microphone."
              [] page.errorCode \in {"network", "aborted"}
                    -> "An unknown microphone error occurred."

\* A terminated session: the error found the advance a no-op and its message
\* is set all the same.
C35_Witness ==
    /\ Mounted
    /\ page.isTerminatedRef
    /\ page.interviewState = "inProgress"
    /\ page.interviewPhase = "recording"
    /\ page.advances[page.currentQuestionIndex] = 0
    /\ page.errorCode = "service-not-allowed"
    /\ page.recognitionError = "Microphone access was denied."

(***************************************************************************)
(* C36  Spoken mode: the violation count starts at 0, never decreases and  *)
(* never exceeds 1 within a session, and a face-absence event received     *)
(* while the phase is not inProgress, or after termination, is not acted   *)
(* on: it is not counted and the page's state stays as it was.             *)
(***************************************************************************)
C36_ViolationCount ==
    /\ [](Mounted => page.faceDetectionWarnings \in {0, 1})
    /\ [][~Mounted /\ Mounted' => page'.faceDetectionWarnings = 0]_vars
    /\ [][Mounted /\ Mounted'
            => page'.faceDetectionWarnings >= page.faceDetectionWarnings]_vars
    /\ [][Mounted /\ Mounted'
          /\ (page.interviewState # "inProgress" \/ page.isTerminatedRef)
            => /\ page'.liveFaceEvents = page.liveFaceEvents
               /\ page'.faceDetectionWarnings = page.faceDetectionWarnings
               /\ page'.onTerminateCalls = page.onTerminateCalls]_vars

(***************************************************************************)
(* C37  Spoken mode: while the phase is inProgress the current question    *)
(* index lies in 0..N-1; within a session the index stays or grows by      *)
(* exactly 1; and it moves on from a question only after that question     *)
(* had its thinking and its recording sub-phase, so no question is         *)
(* skipped.                                                                *)
(***************************************************************************)
C37_IndexInRange ==
    /\ []((Mounted /\ page.interviewState = "inProgress")
             => /\ 0 <= page.currentQuestionIndex
                /\ page.currentQuestionIndex < Len(page.questions))
    /\ [][(Mounted /\ Mounted'
           /\ page'.currentQuestionIndex # page.currentQuestionIndex)
             => /\ page'.currentQuestionIndex = page.currentQuestionIndex + 1
                /\ page.interviewPhase = "recording"]_vars

(***************************************************************************)
(* C38  Spoken mode countdown: the countdown is never negative, is at most *)
(* ThinkSeconds while thinking and at most RecordSeconds while recording;  *)
(* a timer tick takes exactly 1 off; the sub-phase becomes recording only  *)
(* from thinking with the countdown at 0, for the question whose thinking  *)
(* countdown that was; and it goes back to thinking only for a new         *)
(* question, never for the index it was recording.                         *)
(***************************************************************************)
C38_Countdown ==
    /\ []((Mounted /\ page.interviewState = "inProgress")
             => /\ page.timer >= 0
                /\ (page.interviewPhase = "thinking" => page.timer <= ThinkSeconds)
                /\ (page.interviewPhase = "recording" => page.timer <= RecordSeconds))
    /\ [][(Mounted /\ Mounted' /\ page.countdown /\ ~page'.countdown
           /\ rendered' = rendered)
             => page'.timer = page.timer - 1]_vars
    /\ [][(Mounted /\ Mounted'
           /\ page.interviewPhase # "recording" /\ page'.interviewPhase = "recording")
             => /\ page.interviewPhase = "thinking"
                /\ page.timer = 0
                /\ rendered.currentQuestionIndex = page'.currentQuestionIndex]_vars
    /\ [][(Mounted /\ Mounted'
           /\ page.interviewPhase = "recording" /\ page'.interviewPhase = "thinking")
             => page'.currentQuestionIndex > rendered.currentQuestionIndex]_vars

(***************************************************************************)
(* C39  Spoken mode: a ledger slot is committed only while its question is *)
(* in the recording sub-phase.  In particular a step taken while the       *)
(* current question is still thinking, such as a terminal transcription    *)
(* error of the previous question's capture, commits no answer and does    *)
(* not move the index.                                                     *)
(***************************************************************************)
C39_CommitOnlyRecording ==
    [][(Mounted /\ Mounted'
        /\ page.interviewState = "inProgress"
        /\ page.interviewPhase # "recording")
          => /\ page'.advances = page.advances
             /\ page'.allAnswers = page.allAnswers
             /\ page'.currentQuestionIndex = page.currentQuestionIndex]_vars

(***************************************************************************)
(* C40  Quiz mode: Next/Submit takes effect only when the slot of the      *)
(* current question is non-empty; a Next moves the index by exactly 1 and  *)
(* keeps it within 0..N-1; so once the quiz is summarizing or showing its  *)
(* results, every slot 0..N-1 holds one of the options of its question.    *)
(***************************************************************************)
C40_AnsweredBeforeNext ==
    /\ [][(/\ QuizMounted /\ view' = view
           /\ quiz.mcqState = "inProgress"
           /\ \/ quiz'.currentQuestionIndex # quiz.currentQuestionIndex
              \/ quiz'.mcqState # "inProgress")
             => /\ quiz.userAnswers[quiz.currentQuestionIndex + 1] # <<>>
                /\ \/ /\ quiz'.mcqState = "inProgress"
                      /\ quiz'.currentQuestionIndex = quiz.currentQuestionIndex + 1
                      /\ quiz'.currentQuestionIndex <= Len(quiz.questions) - 1
                   \/ /\ quiz'.mcqState = "summarizing"
                      /\ quiz'.currentQuestionIndex = quiz.currentQuestionIndex
                      /\ quiz.currentQuestionIndex = Len(quiz.questions) - 1]_vars
    /\ []((QuizMounted /\ quiz.mcqState \in {"summarizing", "results"})
            => /\ Len(quiz.userAnswers) = Len(quiz.questions)
               /\ \A k \in 1..Len(quiz.questions) :
                     \E o \in 1..Len(quiz.questions[k].options) :
                        quiz.userAnswers[k] = quiz.questions[k].options[o])

\* C40 witness: a quiz of three questions was submitted; every slot holds an
\* option of its question, and the index is at the last question.
C40_Witness ==
    /\ QuizMounted
    /\ quiz.mcqState = "summarizing"
    /\ Len(quiz.questions) = 3
    /\ quiz.currentQuestionIndex = 2
    /\ quiz.userAnswers = << OptionTexts[2], OptionTexts[1], OptionTexts[2] >>

====
